---- MODULE Spec2Model ----
(***************************************************************************)
(* concat-files (src/src/main.rs): per-directory merge of CSV files under  *)
(* a canonical header taken from the first file of each directory.         *)
(*                                                                         *)
(* Strings (paths, file names, header names, cells, CLI arguments) are     *)
(* sequences of code points, so that path sorting, the extension test,     *)
(* BOM stripping and the ASCII test of the delimiter are computed as the   *)
(* code computes them.  A CSV file is the sequence of records the csv      *)
(* reader yields for it under the run's delimiter (record 1 is the header; *)
(* an empty file has no record); every record has at least one field.      *)
(* Option<usize> is a natural number: 0 is None, k > 0 is Some(k - 1).      *)
(* Names are valid UTF-8, so OsStr::to_str never falls back to "unknown".  *)
(***************************************************************************)
EXTENDS Integers, Sequences, FiniteSets, TLC

MaxCols == 2
MaxRows == 2
MaxDirs == 2

(* ---------------------------------------------------------------------- *)
(* String constants                                                        *)
(* ---------------------------------------------------------------------- *)
BOM == 65279
S_empty == << >>
S_dot == <<46>>
S_csv == <<99, 115, 118>>
S_csv_tmp == <<99, 115, 118, 46, 116, 109, 112>>
S_dot_csv == <<46, 99, 115, 118>>
S_comma == <<44>>
S_cwd == <<46>>
S_dot_slash == <<46, 47>>
S_default_out == <<46, 47, 95, 111, 117, 116>>
S_slash == <<47>>

S_id == <<105, 100>>
S_amt == <<97, 109, 116>>
S_ID == <<73, 68>>
S_sp_id == <<32, 105, 100>>
S_bom_id == <<65279, 105, 100>>
S_old == <<111, 108, 100>>
S_x == <<120>>

S_sales == <<115, 97, 108, 101, 115>>
S_A == <<65>>
S_b == <<98>>
S_out == <<95, 111, 117, 116>>
S_ext_out == <<47, 111, 117, 116>>
S_missing == <<46, 47, 109, 105, 115, 115, 105, 110, 103>>

S_jan_csv == <<106, 97, 110, 46, 99, 115, 118>>
S_feb_csv == <<102, 101, 98, 46, 99, 115, 118>>
S_jan_CSV == <<106, 97, 110, 46, 67, 83, 86>>
S_notes_txt == <<110, 111, 116, 101, 115, 46, 116, 120, 116>>
S_x_csv == <<120, 46, 99, 115, 118>>

S_semicolon_x == <<59, 120>>
S_e_acute == <<233>>

S_1 == <<49>>
S_2 == <<50>>
S_3 == <<51>>
S_10 == <<49, 48>>
S_20 == <<50, 48>>
S_30 == <<51, 48>>

(* ---------------------------------------------------------------------- *)
(* Helpers on functions and sequences                                      *)
(* ---------------------------------------------------------------------- *)
Range(s) == {s[i] : i \in DOMAIN s}

Put(f, k, v) == [x \in (DOMAIN f) \cup {k} |-> IF x = k THEN v ELSE f[x]]

Remove(f, k) == [x \in (DOMAIN f) \ {k} |-> f[x]]

StartsWith(s, p) == Len(s) >= Len(p) /\ SubSeq(s, 1, Len(p)) = p

(* Ord for sibling paths: byte-wise comparison of the last component.      *)
RECURSIVE LexLeq(_, _)
LexLeq(a, b) ==
    IF a = << >> THEN TRUE
    ELSE IF b = << >> THEN FALSE
    ELSE IF a[1] < b[1] THEN TRUE
    ELSE IF a[1] > b[1] THEN FALSE
    ELSE LexLeq(Tail(a), Tail(b))

(* Vec::sort of the paths collected from read_dir (whose order is          *)
(* arbitrary): the result is the ascending listing of the set.             *)
RECURSIVE SortPaths(_)
SortPaths(S) ==
    IF S = {} THEN << >>
    ELSE LET m == CHOOSE x \in S : \A y \in S : LexLeq(x, y)
         IN  <<m>> \o SortPaths(S \ {m})

(* ---------------------------------------------------------------------- *)
(* Path::extension, Path::with_extension, is_csv                           *)
(* ---------------------------------------------------------------------- *)
LastDot(name) ==
    LET ds == {i \in 1..Len(name) : name[i] = S_dot[1]}
    IN  IF ds = {} THEN 0 ELSE CHOOSE i \in ds : \A j \in ds : j <= i

(* Option<&OsStr> as a sequence of length 0 (None) or 1 (Some).            *)
Extension(name) ==
    LET k == LastDot(name)
    IN  IF k <= 1 THEN << >> ELSE <<SubSeq(name, k + 1, Len(name))>>

FileStem(name) ==
    LET k == LastDot(name)
    IN  IF k <= 1 THEN name ELSE SubSeq(name, 1, k - 1)

WithExtension(name, ext) == FileStem(name) \o S_dot \o ext

ToAsciiLower(c) == IF c >= 65 /\ c <= 90 THEN c + 32 ELSE c

EqIgnoreAsciiCase(a, b) ==
    /\ Len(a) = Len(b)
    /\ \A i \in 1..Len(a) : ToAsciiLower(a[i]) = ToAsciiLower(b[i])

is_csv(p) ==
    LET e == Extension(p) IN e # << >> /\ EqIgnoreAsciiCase(e[1], S_csv)

(* ---------------------------------------------------------------------- *)
(* strip_bom, read_header, build_mapping, map_record, warn_on_mismatch     *)
(* ---------------------------------------------------------------------- *)
strip_bom(hdr) ==
    IF Len(hdr) > 0 /\ Len(hdr[1]) > 0 /\ hdr[1][1] = BOM
    THEN [hdr EXCEPT ![1] = Tail(hdr[1])]
    ELSE hdr

(* rdr.headers(): the first record of the file, empty for an empty file.   *)
Headers(file) == IF file = << >> THEN << >> ELSE file[1]

(* has_headers(false): the header record is read as a data record too.     *)
DataRowsWithHeader(file) == file

(* rdr.records() under has_headers(true): the records after the header.    *)
DataRows(file) == IF file = << >> THEN << >> ELSE Tail(file)

read_header(file) == strip_bom(Headers(file))

(* A case-folding comparison of column names.                              *)
PositionFolded(file_hdr, name) ==
    LET js == {j \in 1..Len(file_hdr) : EqIgnoreAsciiCase(file_hdr[j], name)}
    IN  IF js = {} THEN 0 ELSE CHOOSE j \in js : \A k \in js : j <= k

(* Iterator::position(|h| h == name): first index, 0 when there is none.   *)
Position(file_hdr, name) ==
    LET js == {j \in 1..Len(file_hdr) : file_hdr[j] = name}
    IN  IF js = {} THEN 0 ELSE CHOOSE j \in js : \A k \in js : j <= k

(* Columns taken by position, not by name.                                 *)
build_mapping_positional(canonical, file_hdr) ==
    [i \in 1..Len(canonical) |-> IF i <= Len(file_hdr) THEN i ELSE 0]

build_mapping(canonical, file_hdr) ==
    [i \in 1..Len(canonical) |-> Position(file_hdr, canonical[i])]

map_record(canonical, file_hdr, rec, map) ==
    [i \in 1..Len(map) |->
        IF map[i] # 0 /\ map[i] <= Len(rec) THEN rec[map[i]] ELSE S_empty]

(* The diagnostic warn_on_mismatch prints: none, a mismatch warning, or    *)
(* the order notice.                                                       *)
warn_on_mismatch(canonical, file_hdr) ==
    IF canonical = file_hdr THEN "none"
    ELSE IF Range(canonical) # Range(file_hdr) THEN "mismatch"
    ELSE "order"

(* ---------------------------------------------------------------------- *)
(* The file tree.  fs maps the name of every entry of the root directory,  *)
(* and the path of an output directory outside the root, to an entry       *)
(* [isDir, files]; files maps a file name to [isDir, data].                *)
(* ---------------------------------------------------------------------- *)
NoFiles == << >>

DirEntry(files) == [isDir |-> TRUE, files |-> files]

RootFileEntry == [isDir |-> FALSE, files |-> NoFiles]

PlainFile(data) == [isDir |-> FALSE, data |-> data]

SubDirEntry == [isDir |-> TRUE, data |-> << >>]

(* Entries of the root directory: every key that is not an absolute path.  *)
RootEntries(f) == {k \in DOMAIN f : ~StartsWith(k, S_slash)}

(* The content of file name in directory key as an option.                 *)
FileAt(f, key, name) ==
    IF key \in DOMAIN f /\ f[key].isDir /\ name \in DOMAIN f[key].files
       /\ ~f[key].files[name].isDir
    THEN <<f[key].files[name].data>>
    ELSE << >>

WriteFile(f, key, name, data) ==
    [f EXCEPT ![key].files = Put(@, name, PlainFile(data))]

(* ---------------------------------------------------------------------- *)
(* Command line (main.rs 10-21)                                            *)
(* ---------------------------------------------------------------------- *)
root_dir(a) == IF Len(a) >= 1 THEN a[1] ELSE S_cwd

out_dir(a) == IF Len(a) >= 2 THEN a[2] ELSE S_default_out

delim_char(a) ==
    IF Len(a) >= 3 /\ a[3] # << >> THEN a[3][1] ELSE S_comma[1]

is_ascii(c) == c <= 127

(* The modelled tree is the working directory: "." is the only root that   *)
(* canonicalize() resolves.                                                *)
RootResolves(a) == root_dir(a) = S_cwd

(* canonicalize().unwrap_or_else(PathBuf::from): "./x" is entry x of the   *)
(* working directory, an absolute path is itself.                          *)
ResolveOut(p) ==
    IF StartsWith(p, S_dot_slash) THEN SubSeq(p, 3, Len(p)) ELSE p

(* One output name for every directory.                                    *)
OutNameShared(dir_name) == S_out \o S_dot_csv

(* out.join(format!("{}.csv", dir_name)), as a file name of the out dir.   *)
OutName(dir_name) == dir_name \o S_dot_csv

(* The writer opened on the final path itself.                             *)
TmpNameInPlace(dir_name) == OutName(dir_name)

(* out_path.with_extension("csv.tmp")                                      *)
TmpName(dir_name) == WithExtension(OutName(dir_name), S_csv_tmp)

(* ---------------------------------------------------------------------- *)
(* Inputs                                                                  *)
(* ---------------------------------------------------------------------- *)
Names == {S_id, S_amt}

HeaderSet(N) == UNION {[1..k -> N] : k \in 1..MaxCols}

CellStr(fname, r, c) == <<fname[1], 48 + r, 48 + c>>

WellFormedFile(fname, h, n) ==
    <<h>> \o [r \in 1..n |-> [c \in 1..Len(h) |-> CellStr(fname, r, c)]]

FileChoices(fname) ==
    {<< >>} \cup {WellFormedFile(fname, h, n) : h \in HeaderSet(Names), n \in 0..MaxRows}

CsvNames == {S_feb_csv, S_jan_csv}

FilesOver(S) ==
    {[n \in S |-> PlainFile(g[n])] :
        g \in {h \in [S -> UNION {FileChoices(n) : n \in S}] :
                  \A n \in S : h[n] \in FileChoices(n)}}

OldFile == <<<<S_old>>, <<S_x>>>>

(* One directory, every well-formed content of up to two CSV files.        *)
OneDirInputs ==
    {[args |-> <<S_cwd, S_ext_out>>,
      tree |-> [d \in {S_sales} |-> DirEntry(files)],
      old |-> o] :
        files \in UNION {FilesOver(S) : S \in SUBSET CsvNames}, o \in BOOLEAN}

(* The scenario of the specification: sales/jan.csv and sales/feb.csv.     *)
ScenarioFiles ==
    [n \in {S_jan_csv, S_feb_csv} |->
        IF n = S_jan_csv
        THEN PlainFile(<<<<S_id, S_amt>>, <<S_1, S_10>>, <<S_2, S_20>>>>)
        ELSE PlainFile(<<<<S_amt, S_id>>, <<S_30, S_3>>>>)]

ScenarioInputs ==
    {[args |-> <<S_cwd, S_ext_out>>,
      tree |-> [d \in {S_sales} |-> DirEntry(ScenarioFiles)],
      old |-> FALSE]}

(* Kinds of root entries for runs over several directories.                *)
K_nocsv ==
    DirEntry([n \in {S_notes_txt, S_dot_csv, S_x_csv} |->
        IF n = S_x_csv THEN SubDirEntry ELSE PlainFile(<<<<S_id>>, <<S_1>>>>)])

K_emptycsv == DirEntry([n \in {S_feb_csv} |-> PlainFile(<< >>)])

K_bom ==
    DirEntry([n \in {S_jan_CSV} |->
        PlainFile(<<<<S_bom_id, S_amt>>, <<S_1, S_10>>>>)])

K_ragged ==
    DirEntry([n \in {S_feb_csv} |->
        PlainFile(<<<<S_id, S_amt>>, <<S_1, S_10>>, <<S_2>>>>)])

K_long ==
    DirEntry([n \in {S_feb_csv} |-> PlainFile(<<<<S_id>>, <<S_1, S_10>>>>)])

K_two ==
    DirEntry([n \in {S_feb_csv, S_jan_csv} |->
        IF n = S_feb_csv
        THEN PlainFile(<<<<S_amt, S_bom_id>>, <<S_30, S_3>>>>)
        ELSE PlainFile(<<<<S_id>>, <<S_1>>>>)])

Kinds == {K_nocsv, K_emptycsv, K_bom, K_ragged, K_long, K_two, RootFileEntry}

DirNames == {S_A, S_b, S_sales}

ArgChoices ==
    { << >>,
      <<S_cwd, S_ext_out>>,
      <<S_cwd, S_ext_out, S_semicolon_x>>,
      <<S_cwd, S_ext_out, S_empty>>,
      <<S_cwd, S_ext_out, S_e_acute>>,
      <<S_missing>> }

ManyDirInputs ==
    {[args |-> a, tree |-> t, old |-> o] :
        a \in ArgChoices,
        t \in UNION {[S -> Kinds] : S \in {T \in SUBSET DirNames : Cardinality(T) <= MaxDirs}},
        o \in BOOLEAN}

Inputs == OneDirInputs \cup ScenarioInputs \cup ManyDirInputs

(* The tree before the run: the input tree, and when old holds an output   *)
(* directory left by an earlier use, with one file per root entry.         *)
BuildFs(inp) ==
    IF inp.old
    THEN Put(inp.tree, ResolveOut(out_dir(inp.args)),
             DirEntry([n \in {OutName(d) : d \in DOMAIN inp.tree} |-> PlainFile(OldFile)]))
    ELSE inp.tree

(* ---------------------------------------------------------------------- *)
(* State                                                                   *)
(* ---------------------------------------------------------------------- *)
VARIABLES
    args,       \* the command line after the program name
    fs,         \* the file tree
    fs0,        \* the file tree when the (first) run started
    pc,         \* position of main
    err,        \* what the run failed with
    delim,      \* delim_char
    out,        \* the output directory (its key in fs)
    subdirs,    \* the sorted subdirectories of the root
    di,         \* index of the directory being processed
    csvs,       \* the sorted CSV files of that directory
    fi,         \* index of the file being copied
    ri,         \* index of the data row being copied
    canonical,  \* canonical header of the directory
    hdr,        \* BOM-stripped header of the file being copied
    map,        \* build_mapping(canonical, hdr)
    rec,        \* the last record read by rdr.records()
    outrow,     \* the last record map_record produced
    log,        \* console lines written so far
    run,        \* which run this is (a second one exists only under SpecRerun)
    snap,       \* the file tree at the end of the first run
    probe       \* inputs of the mapping functions (SpecMap)

vars == <<args, fs, fs0, pc, err, delim, out, subdirs, di, csvs, fi, ri,
          canonical, hdr, map, rec, outrow, log, run, snap, probe>>

Msg(m, w) == [msg |-> m, what |-> w]

Locals ==
    /\ err = "none" /\ delim = 0 /\ out = << >> /\ subdirs = << >> /\ di = 0
    /\ csvs = << >> /\ fi = 0 /\ ri = 0 /\ canonical = << >> /\ hdr = << >>
    /\ map = << >> /\ rec = << >> /\ outrow = << >> /\ log = << >>

Init ==
    /\ \E inp \in Inputs : args = inp.args /\ fs = BuildFs(inp)
    /\ fs0 = fs
    /\ pc = "start"
    /\ Locals
    /\ run = 1 /\ snap = << >> /\ probe = << >>

dir_name == subdirs[di]

CurFile == fs[dir_name].files[csvs[fi]].data

TmpData == FileAt(fs, out, TmpName(dir_name))[1]

(* wtr.write_record(r): the record is appended to the temporary file.      *)
WriteRecord(r) ==
    fs' = WriteFile(fs, out, TmpName(dir_name), Append(TmpData, r))

(* The end of one iteration of `for dir in subdirs`, after printing msgs;   *)
(* after the last directory main prints the summary and returns Ok.        *)
Continue(msgs) ==
    /\ di' = di + 1
    /\ pc' = IF di < Len(subdirs) THEN "dir" ELSE "done"
    /\ log' = log \o msgs \o
              (IF di < Len(subdirs) THEN << >> ELSE <<Msg("all_done", out)>>)

(* The end of one iteration of `for (idx, file) in csvs`.                   *)
AfterFile ==
    IF fi < Len(csvs) THEN fi' = fi + 1 /\ pc' = "file"
                      ELSE fi' = fi /\ pc' = "flush"

Abort(e) == pc' = "aborted" /\ err' = e

(* main.rs 10-18 *)
ParseArgs ==
    /\ pc = "start"
    /\ IF is_ascii(delim_char(args))
       THEN /\ delim' = delim_char(args) /\ pc' = "resolve"
            /\ UNCHANGED err
       ELSE /\ Abort("delimiter")
            /\ UNCHANGED delim
    /\ UNCHANGED <<args, fs, fs0, out, subdirs, di, csvs, fi, ri, canonical,
                   hdr, map, rec, outrow, log, run, snap, probe>>

(* main.rs 20-24 *)
ResolveDirs ==
    /\ pc = "resolve"
    /\ IF RootResolves(args)
       THEN /\ out' = ResolveOut(out_dir(args))
            /\ fs' = IF out' \in DOMAIN fs THEN fs ELSE Put(fs, out', DirEntry(NoFiles))
            /\ pc' = "list"
            /\ UNCHANGED err
       ELSE /\ Abort("root_dir")
            /\ UNCHANGED <<out, fs>>
    /\ UNCHANGED <<args, fs0, delim, subdirs, di, csvs, fi, ri, canonical,
                   hdr, map, rec, outrow, log, run, snap, probe>>

(* main.rs 27-40 *)
ListRoot ==
    /\ pc = "list"
    /\ subdirs' = SortPaths({d \in RootEntries(fs) : fs[d].isDir})
    /\ IF subdirs' = << >>
       THEN /\ pc' = "done" /\ log' = Append(log, Msg("no_subdirs", S_cwd))
            /\ UNCHANGED di
       ELSE /\ pc' = "dir" /\ di' = 1
            /\ UNCHANGED log
    /\ UNCHANGED <<args, fs, fs0, err, delim, out, csvs, fi, ri, canonical,
                   hdr, map, rec, outrow, run, snap, probe>>

(* main.rs 43-58 *)
ListDir ==
    /\ pc = "dir"
    /\ LET found == {f \in DOMAIN fs[dir_name].files :
                        ~fs[dir_name].files[f].isDir /\ is_csv(f)}
       IN  IF found = {}
           THEN /\ Continue(<<Msg("skip_no_csv", dir_name)>>)
                /\ UNCHANGED csvs
           ELSE /\ csvs' = SortPaths(found)
                /\ pc' = "create"
                /\ UNCHANGED <<di, log>>
    /\ UNCHANGED <<args, fs, fs0, err, delim, out, subdirs, fi, ri, canonical,
                   hdr, map, rec, outrow, run, snap, probe>>

(* main.rs 61-68: File::create of the temporary path *)
CreateTmp ==
    /\ pc = "create"
    /\ fs' = WriteFile(fs, out, TmpName(dir_name), << >>)
    /\ pc' = "header"
    /\ UNCHANGED <<args, fs0, err, delim, out, subdirs, di, csvs, fi, ri,
                   canonical, hdr, map, rec, outrow, log, run, snap, probe>>

(* main.rs 71-78 *)
ReadHeader ==
    /\ pc = "header"
    /\ canonical' = read_header(fs[dir_name].files[csvs[1]].data)
    /\ rec' = << >> /\ outrow' = << >>
    /\ IF canonical' = << >>
       THEN Continue(<<Msg("warn_empty_header", dir_name)>>)
       ELSE pc' = "write_header" /\ UNCHANGED <<di, log>>
    /\ UNCHANGED <<args, fs, fs0, err, delim, out, subdirs, csvs, fi, ri,
                   hdr, map, run, snap, probe>>

(* main.rs 81 *)
WriteHeader ==
    /\ pc = "write_header"
    /\ WriteRecord(canonical)
    /\ fi' = 1 /\ pc' = "file"
    /\ UNCHANGED <<args, fs0, err, delim, out, subdirs, di, csvs, ri,
                   canonical, hdr, map, rec, outrow, log, run, snap, probe>>

(* main.rs 85-99 and 107-108 *)
OpenFile ==
    /\ pc = "file"
    /\ hdr' = strip_bom(Headers(CurFile))
    /\ map' = build_mapping(canonical, hdr')
    /\ log' = IF warn_on_mismatch(canonical, hdr') = "none" THEN log
              ELSE Append(log, Msg(warn_on_mismatch(canonical, hdr'), csvs[fi]))
    /\ ri' = 1
    /\ IF DataRows(CurFile) = << >> THEN AfterFile
                                    ELSE pc' = "row" /\ UNCHANGED fi
    /\ UNCHANGED <<args, fs, fs0, err, delim, out, subdirs, di, csvs,
                   canonical, rec, outrow, run, snap, probe>>

(* main.rs 100-104 and 109-113: one iteration of rdr.records().  The       *)
(* reader is built without flexible(true), so a record whose field count   *)
(* differs from the header record's is Err(UnequalLengths).                *)
CopyRow ==
    /\ pc = "row"
    /\ rec' = DataRows(CurFile)[ri]
    /\ IF Len(rec') # Len(Headers(CurFile))
       THEN /\ Abort("UnequalLengths")
            /\ UNCHANGED <<fs, outrow, ri, fi>>
       ELSE /\ outrow' = map_record(canonical, hdr, rec', map)
            /\ WriteRecord(outrow')
            /\ UNCHANGED err
            /\ IF ri < Len(DataRows(CurFile))
               THEN ri' = ri + 1 /\ UNCHANGED <<pc, fi>>
               ELSE AfterFile /\ UNCHANGED ri
    /\ UNCHANGED <<args, fs0, delim, out, subdirs, di, csvs, canonical, hdr,
                   map, log, run, snap, probe>>

(* main.rs 117 *)
Flush ==
    /\ pc = "flush"
    /\ pc' = "rename"
    /\ UNCHANGED <<args, fs, fs0, err, delim, out, subdirs, di, csvs, fi, ri,
                   canonical, hdr, map, rec, outrow, log, run, snap, probe>>

(* main.rs 119-121 *)
Rename ==
    /\ pc = "rename"
    /\ fs' = [fs EXCEPT ![out].files =
                Put(Remove(@, TmpName(dir_name)), OutName(dir_name), PlainFile(TmpData))]
    /\ Continue(<<Msg("wrote", dir_name)>>)
    /\ UNCHANGED <<args, fs0, err, delim, out, subdirs, csvs, fi, ri,
                   canonical, hdr, map, rec, outrow, run, snap, probe>>

(* The errors the `?` operators propagate: a failed system call or a       *)
(* record the csv reader cannot decode, at the step main is about to take. *)
FailKinds(p) ==
    CASE p = "resolve" -> {"create_out_dir"}
      [] p \in {"list", "dir"} -> {"read_dir"}
      [] p \in {"header", "file"} -> {"read"}
      [] p = "row" -> {"read", "write"}
      [] p \in {"create", "write_header", "flush", "rename"} -> {"write"}
      [] OTHER -> {}

IOFail ==
    /\ \E e \in FailKinds(pc) : Abort(e)
    /\ UNCHANGED <<args, fs, fs0, delim, out, subdirs, di, csvs, fi, ri,
                   canonical, hdr, map, rec, outrow, log, run, snap, probe>>

Next ==
    \/ ParseArgs \/ ResolveDirs \/ ListRoot \/ ListDir \/ CreateTmp
    \/ ReadHeader \/ WriteHeader \/ OpenFile \/ CopyRow \/ Flush \/ Rename
    \/ IOFail

Spec == Init /\ [][Next]_vars

(* ---------------------------------------------------------------------- *)
(* A second run with the same arguments on the tree the first run left.    *)
(* ---------------------------------------------------------------------- *)
RerunInputs ==
    {inp \in ManyDirInputs :
        /\ Cardinality(DOMAIN inp.tree) <= 1 /\ ~inp.old
        /\ inp.args \in {<< >>, <<S_cwd, S_ext_out>>, <<S_cwd, S_ext_out, S_semicolon_x>>}}

InitRerun ==
    /\ \E inp \in RerunInputs : args = inp.args /\ fs = BuildFs(inp)
    /\ fs0 = fs
    /\ pc = "start"
    /\ Locals
    /\ run = 1 /\ snap = << >> /\ probe = << >>

Rerun ==
    /\ pc = "done" /\ run = 1
    /\ run' = 2 /\ snap' = fs
    /\ pc' = "start"
    /\ err' = "none" /\ delim' = 0 /\ out' = << >> /\ subdirs' = << >> /\ di' = 0
    /\ csvs' = << >> /\ fi' = 0 /\ ri' = 0 /\ canonical' = << >> /\ hdr' = << >>
    /\ map' = << >> /\ rec' = << >> /\ outrow' = << >> /\ log' = << >>
    /\ UNCHANGED <<args, fs, fs0, probe>>

NextRerun == Next \/ Rerun

SpecRerun == InitRerun /\ [][NextRerun]_vars

(* ---------------------------------------------------------------------- *)
(* The mapping functions on arbitrary headers and records.                 *)
(* ---------------------------------------------------------------------- *)
MapNames == {S_id, S_ID, S_sp_id, S_bom_id}

ProbeCell(c) == <<99, 48 + c>>

MapProbes ==
    {[first |-> a, file |-> b, rec |-> [c \in 1..k |-> ProbeCell(c)]] :
        a \in HeaderSet(MapNames), b \in HeaderSet(MapNames), k \in 1..(MaxCols + 1)}

InitMap ==
    /\ probe \in MapProbes
    /\ pc = "m_start"
    /\ Locals
    /\ args = << >> /\ fs = << >> /\ fs0 = << >> /\ run = 1 /\ snap = << >>

(* read_header on the first file of the directory *)
MReadHeader ==
    /\ pc = "m_start"
    /\ canonical' = read_header(<<probe.first>>)
    /\ pc' = "m_header"
    /\ UNCHANGED <<args, fs, fs0, err, delim, out, subdirs, di, csvs, fi, ri,
                   hdr, map, rec, outrow, log, run, snap, probe>>

(* rdr.headers(), strip_bom and build_mapping on a file of the directory *)
MBuildMapping ==
    /\ pc = "m_header"
    /\ hdr' = strip_bom(Headers(<<probe.file>>))
    /\ map' = build_mapping(canonical, hdr')
    /\ pc' = "m_file"
    /\ UNCHANGED <<args, fs, fs0, err, delim, out, subdirs, di, csvs, fi, ri,
                   canonical, rec, outrow, log, run, snap, probe>>

(* map_record on one record *)
MMapRecord ==
    /\ pc = "m_file"
    /\ rec' = probe.rec
    /\ outrow' = map_record(canonical, hdr, rec', map)
    /\ pc' = "m_row"
    /\ UNCHANGED <<args, fs, fs0, err, delim, out, subdirs, di, csvs, fi, ri,
                   canonical, hdr, map, log, run, snap, probe>>

NextMap == MReadHeader \/ MBuildMapping \/ MMapRecord

SpecMap == InitMap /\ [][NextMap]_vars

(* ---------------------------------------------------------------------- *)
(* What a merged output is, stated from the directory's content alone.     *)
(* ---------------------------------------------------------------------- *)
CsvFilesOf(files) == {n \in DOMAIN files : ~files[n].isDir /\ is_csv(n)}

(* The listing of S in strictly ascending path order. *)
AscendingListing(S) ==
    CHOOSE s \in [1..Cardinality(S) -> S] :
        \A i, j \in 1..Cardinality(S) : i < j => (s[i] # s[j] /\ LexLeq(s[i], s[j]))

MappedRows(canon, file) ==
    IF Len(file) < 2 THEN << >>
    ELSE LET h == strip_bom(file[1])
         IN  [r \in 1..(Len(file) - 1) |->
                 map_record(canon, h, file[r + 1], build_mapping(canon, h))]

RECURSIVE ConcatRows(_, _, _)
ConcatRows(canon, files, names) ==
    IF names = << >> THEN << >>
    ELSE MappedRows(canon, files[Head(names)].data)
            \o ConcatRows(canon, files, Tail(names))

FirstHeader(files) ==
    LET first == files[AscendingListing(CsvFilesOf(files))[1]].data
    IN  IF first = << >> THEN << >> ELSE strip_bom(first[1])

Mergeable(files) == CsvFilesOf(files) # {} /\ FirstHeader(files) # << >>

ExpectedMerge(files) ==
    <<FirstHeader(files)>>
        \o ConcatRows(FirstHeader(files), files, AscendingListing(CsvFilesOf(files)))

(* Every data row of every CSV file has as many cells as its header. *)
NoUnequalRow(files) ==
    \A n \in CsvFilesOf(files) :
        \A r \in 2..Len(files[n].data) :
            Len(files[n].data[r]) = Len(files[n].data[1])

OutKey == ResolveOut(out_dir(args))

SourceDirs == {d \in RootEntries(fs0) : fs0[d].isDir /\ d # OutKey}

OutputOf(f, d) == FileAt(f, OutKey, OutName(d))

(* What the directory's own content makes of its output file. *)
ExpectedOutcome(d) ==
    IF Mergeable(fs0[d].files) /\ NoUnequalRow(fs0[d].files)
    THEN <<ExpectedMerge(fs0[d].files)>>
    ELSE OutputOf(fs0, d)

Wrote(d) == Msg("wrote", d) \in Range(log)

(* ---------------------------------------------------------------------- *)
(* Claims                                                                  *)
(* ---------------------------------------------------------------------- *)

(* C1: the output promoted for a directory is the BOM-stripped header of   *)
(* its first file in sorted path order, once, followed by the mapped data  *)
(* rows of all its CSV files in sorted file order and file row order.      *)
C1_PromotedOutputIsMerge ==
    [][(pc = "rename" /\ pc' # "aborted")
        => OutputOf(fs', dir_name) = <<ExpectedMerge(fs[dir_name].files)>>]_vars

C1_Witness ==
    /\ pc = "done" /\ Wrote(S_sales)
    /\ CsvFilesOf(fs0[S_sales].files) = CsvNames
    /\ Len(DataRows(fs0[S_sales].files[S_jan_csv].data)) = 2
    /\ Headers(fs0[S_sales].files[S_jan_csv].data) = <<S_id, S_amt>>
    /\ Headers(fs0[S_sales].files[S_feb_csv].data) = <<S_amt>>
    /\ Len(OutputOf(fs, S_sales)[1]) >= 4

(* C2 as stated: a data row with fewer cells than its file's header never  *)
(* aborts the run, and the row emitted for it has the canonical length.    *)
C2_RaggedRowTolerated ==
    (rec # << >> /\ Len(rec) < Len(hdr))
    => (err # "UnequalLengths" /\ Len(outrow) = Len(canonical))

(* The output of a source directory is absent, as before the run, or the   *)
(* complete merge.                                                         *)
C3_StateInv ==
    \A d \in SourceDirs :
        \/ OutputOf(fs, d) = << >>
        \/ OutputOf(fs, d) = OutputOf(fs0, d)
        \/ /\ Mergeable(fs0[d].files)
           /\ OutputOf(fs, d) = <<ExpectedMerge(fs0[d].files)>>

(* A step that changes an output file is the rename of the directory being *)
(* processed, and installs the complete merge held by the temporary file.  *)
C3_Step ==
    \A d \in RootEntries(fs) \cup RootEntries(fs') :
        OutputOf(fs', d) # OutputOf(fs, d)
        => /\ pc = "rename" /\ d = dir_name
           /\ OutputOf(fs', d) = <<TmpData>>
           /\ TmpData = ExpectedMerge(fs[d].files)

(* C3: in every state, also after an abort, the final output file of a     *)
(* directory is absent, as it was before the run, or the complete merge;   *)
(* rows go to the temporary file and only the rename changes the output.   *)
C3_OutputOnlyChangedByRename == [](C3_StateInv) /\ [][C3_Step]_vars

C3_Witness ==
    /\ pc = "aborted" /\ err \in {"read", "write", "UnequalLengths"}
    /\ OutputOf(fs0, dir_name) = <<OldFile>>
    /\ OutputOf(fs, dir_name) = <<OldFile>>
    /\ FileAt(fs, OutKey, TmpName(dir_name)) # << >>
    /\ Len(FileAt(fs, OutKey, TmpName(dir_name))[1]) >= 2

(* C4: the output cell at canonical position i is the record's cell at the *)
(* first index where the file's BOM-stripped header equals the canonical   *)
(* name exactly, the empty string when no header name is equal or the      *)
(* record is too short; no cell under a column absent from the canonical   *)
(* header is copied.                                                       *)
C4_MappedCells ==
    pc = "m_row" =>
        /\ Len(outrow) = Len(canonical)
        /\ \A i \in 1..Len(canonical) :
              LET js == {j \in 1..Len(hdr) : hdr[j] = canonical[i]}
              IN  IF js = {} THEN outrow[i] = S_empty
                  ELSE \E j \in js :
                          /\ \A k \in js : j <= k
                          /\ outrow[i] = IF j <= Len(rec) THEN rec[j] ELSE S_empty
        /\ \A j \in 1..Len(rec) :
              (j <= Len(hdr) /\ hdr[j] \notin Range(canonical))
                  => rec[j] \notin Range(outrow)

C4_Witness ==
    /\ pc = "m_row"
    /\ canonical = <<S_id, S_ID>> /\ hdr = <<S_ID, S_sp_id>>
    /\ rec = <<ProbeCell(1), ProbeCell(2)>>
    /\ outrow = <<S_empty, ProbeCell(1)>>

ScenarioRun == S_sales \in DOMAIN fs0 /\ fs0[S_sales] = DirEntry(ScenarioFiles)

(* C5 as stated: the scenario's output is id,amt / 1,10 / 2,20 / 3,30.     *)
C5_ScenarioAsStated ==
    (ScenarioRun /\ pc = "done")
    => OutputOf(fs, S_sales)
          = <<<<<<S_id, S_amt>>, <<S_1, S_10>>, <<S_2, S_20>>, <<S_3, S_30>>>>>>

(* C5 amended: feb.csv sorts before jan.csv, so the canonical header is    *)
(* amt,id and the output is amt,id / 30,3 / 10,1 / 20,2.                    *)
C5_ScenarioSorted ==
    (ScenarioRun /\ pc \in {"file", "row", "flush", "rename", "done"})
    => /\ canonical = <<S_amt, S_id>>
       /\ pc = "done" =>
            OutputOf(fs, S_sales)
              = <<<<<<S_amt, S_id>>, <<S_30, S_3>>, <<S_10, S_1>>, <<S_20, S_2>>>>>>

C5_Witness == ScenarioRun /\ pc = "done" /\ Wrote(S_sales)

(* C6 as stated: a second run with the same arguments on unchanged input   *)
(* directories leaves the same output files with the same content.         *)
C6_Idempotent ==
    (run = 2 /\ pc = "done") => fs[OutKey] = snap[OutKey]

(* C7 as stated: whether a directory's output exists and what it holds is  *)
(* decided by that directory alone, also when another directory holds a    *)
(* CSV whose reading aborts the run.                                       *)
C7_OrderInvariantAsStated ==
    (pc = "done" \/ (pc = "aborted" /\ err \in {"read", "UnequalLengths"}
                                     /\ dir_name \in SourceDirs))
    => \A d \in SourceDirs :
          (pc = "aborted" /\ d = dir_name) \/ OutputOf(fs, d) = ExpectedOutcome(d)

(* C7 amended: in a run that ends successfully every source directory's    *)
(* output is what its own content decides; when the run aborts, that holds *)
(* for the directories sorted before the one being processed, and those    *)
(* sorted after it keep the output they had before the run.                *)
C7_OrderInvariantUnlessAborted ==
    /\ pc = "done" => \A d \in SourceDirs : OutputOf(fs, d) = ExpectedOutcome(d)
    /\ (pc = "aborted" /\ di = 0) =>
          \A d \in SourceDirs : OutputOf(fs, d) = OutputOf(fs0, d)
    /\ (pc = "aborted" /\ di > 0) =>
          \A i \in 1..Len(subdirs) :
             subdirs[i] \in SourceDirs =>
                /\ i < di => OutputOf(fs, subdirs[i]) = ExpectedOutcome(subdirs[i])
                /\ i > di => OutputOf(fs, subdirs[i]) = OutputOf(fs0, subdirs[i])

C7_Witness ==
    /\ pc = "done" /\ subdirs = <<S_A, S_sales>>
    /\ Wrote(S_A) /\ Wrote(S_sales)
    /\ OutputOf(fs, S_A) = ExpectedOutcome(S_A)
    /\ OutputOf(fs, S_sales) = ExpectedOutcome(S_sales)
    /\ ExpectedOutcome(S_A) # ExpectedOutcome(S_sales)

(* C8 as stated: an empty or non-ASCII third argument fails the run before *)
(* anything is listed or created.                                          *)
C8_DelimiterValidatedFirst ==
    (Len(args) >= 3 /\ (args[3] = S_empty \/ ~is_ascii(args[3][1])))
    => (pc \in {"start", "aborted"} /\ fs = fs0)

(* C9 as stated: a record of the first file with as many cells as the      *)
(* file's header is emitted unchanged, whatever the header.                *)
C9_FirstFileUnchanged ==
    (pc = "m_row" /\ probe.file = probe.first /\ Len(rec) = Len(hdr))
    => outrow = rec

(* C10 as stated: a run that ends successfully leaves no temporary file.   *)
C10_NoTmpLeftBehind ==
    pc = "done" =>
        \A d \in RootEntries(fs) : FileAt(fs, OutKey, TmpName(d)) = << >>

====
